---- MODULE Spec2Model ----
(***************************************************************************)
(* Delivery-logistics backend (ddd-playground-nestjs): the Order and       *)
(* Assignment entities, the three repositories, and the use cases          *)
(* PlaceOrder, MarkReadyToShip, OfferAssignment and AcceptAssignment.      *)
(*                                                                         *)
(* A use-case execution is an async function: the code between two awaits  *)
(* runs without interruption, and every awaited repository call is one     *)
(* step against the shared storage.  Executions of different requests      *)
(* interleave at these steps.                                              *)
(***************************************************************************)
EXTENDS Integers, Sequences, FiniteSets, TLC

VARIABLES
    orders,        \* table "order": order id -> persisted status ("NONE" = no row)
    assignments,   \* table "assignment": assignment id -> persisted row
    events,        \* table "delivery_event", in insertion order
    nextOrderId,   \* next fresh order id (uuidv4 in PlaceOrder)
    nextAsgId,     \* next fresh assignment id (uuidv4 in OfferAssignment)
    nextEventId,   \* next fresh event id (uuidv4 where a DeliveryEvent is built)
    proc,          \* the in-flight use-case executions
    execs,         \* number of executions started so far
    order,         \* an in-memory Order entity (entity specification)
    assignment,    \* an in-memory Assignment entity (entity specification)
    lastCall,      \* the last transition call made on an in-memory entity
    calls,         \* number of transition calls made so far
    params,        \* the input PlaceOrder is called with
    history        \* what an execution records of its start: "pre" or "own"

vars == <<orders, assignments, events, nextOrderId, nextAsgId, nextEventId, proc,
          execs, order, assignment, lastCall, calls, params, history>>

storeVars ==
    <<orders, assignments, events, nextOrderId, nextAsgId, nextEventId, proc, execs,
      params, history>>
entityVars == <<order, assignment, lastCall, calls>>

----------------------------------------------------------------------------
(* Bounds *)

MaxOrders == 2
MaxAsgs == 2
MaxCouriers == 2
NProcs == 2
MaxExecs == 5
MaxCalls == 4
MaxStrLen == 2

OrderIds == 1..MaxOrders
AsgIds == 1..MaxAsgs
CourierIds == 1..MaxCouriers
Procs == 1..NProcs

NULL == 0

----------------------------------------------------------------------------
(* Value objects *)

OrderStatusType == {"PLACED", "READY_TO_SHIP", "ASSIGNED", "DELIVERED", "CANCELLED"}

AssignmentStatusType == {"PENDING", "ACCEPTED", "REJECTED", "COMPLETED", "CANCELLED"}

EventTypeValue ==
    {"ORDER_PLACED", "READY_TO_SHIP", "ASSIGNED", "PICKED_UP", "DELIVERED", "CANCELLED"}

OrderStatus_canBeAssigned(s) == s = "READY_TO_SHIP"

OrderStatus_isDelivered(s) == s = "DELIVERED"

AssignmentStatus_isActive(s) == s = "PENDING" \/ s = "ACCEPTED"

AssignmentStatus_isPending(s) == s = "PENDING"

AssignmentStatus_isAccepted(s) == s = "ACCEPTED"

AssignmentStatus_isCompleted(s) == s = "COMPLETED"

\* Strings are sequences of characters; " " stands for the whitespace
\* characters String.prototype.trim removes.
Chars == {" ", "a"}

Strings == UNION {[1..n -> Chars] : n \in 0..MaxStrLen}

\* Date values (NULL: no date given) and weights in kg.
Dates == {NULL, 1, 2}

Weights == {-1, 0, 1}

RECURSIVE TrimStart(_)
TrimStart(s) ==
    IF s # <<>> /\ Head(s) = " " THEN TrimStart(Tail(s)) ELSE s

RECURSIVE TrimEnd(_)
TrimEnd(s) ==
    IF s # <<>> /\ s[Len(s)] = " " THEN TrimEnd(SubSeq(s, 1, Len(s) - 1)) ELSE s

\* String.prototype.trim
Trim(s) == TrimEnd(TrimStart(s))

Mut_Address(value) ==
    IF value = <<>> \/ Trim(value) = <<>>
    THEN [threw |-> TRUE, value |-> <<>>]
    ELSE [threw |-> FALSE, value |-> value]

\* A value-object constructor returns the object and whether it threw.
Address(value) ==
    IF value = <<>> \/ Trim(value) = <<>>
    THEN [threw |-> TRUE, value |-> <<>>]
    ELSE [threw |-> FALSE, value |-> Trim(value)]

Address_equals(a, b) == a.value = b.value

AccountId(value) ==
    IF value = <<>>
    THEN [threw |-> TRUE, value |-> <<>>]
    ELSE [threw |-> FALSE, value |-> value]

TimeWindow(startAt, endAt) ==
    IF startAt # NULL /\ endAt # NULL /\ startAt > endAt
    THEN [threw |-> TRUE, startAt |-> NULL, endAt |-> NULL]
    ELSE [threw |-> FALSE, startAt |-> startAt, endAt |-> endAt]

Mut_Weight(valueInKg) == [threw |-> FALSE, valueInKg |-> valueInKg]

Weight(valueInKg) ==
    IF valueInKg < 0
    THEN [threw |-> TRUE, valueInKg |-> 0]
    ELSE [threw |-> FALSE, valueInKg |-> valueInKg]

\* The input of PlaceOrderUseCase.execute.
ShipperIds == {<<>>, <<"a">>}

\* totalWeightKg is optional.
WeightInputs ==
    {[given |-> FALSE, kg |-> 0]} \cup {[given |-> TRUE, kg |-> w] : w \in Weights}

PlaceOrderParams ==
    [shipperId : ShipperIds, pickupAddress : Strings, dropoffAddress : Strings,
     pickupStartAt : Dates, pickupEndAt : Dates,
     dropStartAt : Dates, dropEndAt : Dates,
     totalWeightKg : WeightInputs]

ValidParams ==
    [shipperId |-> <<"a">>, pickupAddress |-> <<"a">>, dropoffAddress |-> <<"a">>,
     pickupStartAt |-> NULL, pickupEndAt |-> NULL,
     dropStartAt |-> NULL, dropEndAt |-> NULL,
     totalWeightKg |-> [given |-> FALSE, kg |-> 0]]

----------------------------------------------------------------------------
(* Order entity.  A transition takes the entity and returns the entity     *)
(* after the call together with whether the call threw.                    *)

Mut_Order_markReadyToShip(o) ==
    IF o.status = "DELIVERED" \/ o.status = "CANCELLED"
    THEN [threw |-> TRUE, e |-> o]
    ELSE [threw |-> FALSE, e |-> [o EXCEPT !.status = "READY_TO_SHIP"]]

Order_markReadyToShip(o) ==
    IF o.status # "PLACED"
    THEN [threw |-> TRUE, e |-> o]
    ELSE [threw |-> FALSE, e |-> [o EXCEPT !.status = "READY_TO_SHIP"]]

Mut_Order_assign_same(o) ==
    IF ~OrderStatus_canBeAssigned(o.status)
    THEN [threw |-> TRUE, e |-> o]
    ELSE [threw |-> FALSE, e |-> o]

Mut_Order_assign(o) ==
    IF OrderStatus_isDelivered(o.status)
    THEN [threw |-> TRUE, e |-> o]
    ELSE [threw |-> FALSE, e |-> [o EXCEPT !.status = "ASSIGNED"]]

Order_assign(o) ==
    IF ~OrderStatus_canBeAssigned(o.status)
    THEN [threw |-> TRUE, e |-> o]
    ELSE [threw |-> FALSE, e |-> [o EXCEPT !.status = "ASSIGNED"]]

Mut_Order_deliver(o) ==
    IF o.status # "ASSIGNED"
    THEN [threw |-> TRUE, e |-> [o EXCEPT !.status = "DELIVERED"]]
    ELSE [threw |-> FALSE, e |-> [o EXCEPT !.status = "DELIVERED"]]

Order_deliver(o) ==
    IF o.status # "ASSIGNED"
    THEN [threw |-> TRUE, e |-> o]
    ELSE [threw |-> FALSE, e |-> [o EXCEPT !.status = "DELIVERED"]]

Mut_Order_cancel(o) ==
    [threw |-> FALSE, e |-> [o EXCEPT !.status = "CANCELLED"]]

Mut_Order_cancel_once(o) ==
    IF OrderStatus_isDelivered(o.status) \/ o.status = "CANCELLED"
    THEN [threw |-> TRUE, e |-> o]
    ELSE [threw |-> FALSE, e |-> [o EXCEPT !.status = "CANCELLED"]]

Order_cancel(o) ==
    IF OrderStatus_isDelivered(o.status)
    THEN [threw |-> TRUE, e |-> o]
    ELSE [threw |-> FALSE, e |-> [o EXCEPT !.status = "CANCELLED"]]

Mut_Order_canBeAssigned(o) ==
    OrderStatus_canBeAssigned(o.status) \/ o.status = "ASSIGNED"

Order_canBeAssigned(o) == OrderStatus_canBeAssigned(o.status)

----------------------------------------------------------------------------
(* Assignment entity.  respondedAt is NULL or 1 (a timestamp).             *)

Mut_Assignment_accept_active(a) ==
    IF ~AssignmentStatus_isActive(a.status)
    THEN [threw |-> TRUE, e |-> a]
    ELSE [threw |-> FALSE,
          e |-> [a EXCEPT !.status = "ACCEPTED", !.respondedAt = 1]]

Mut_Assignment_accept(a) ==
    IF ~AssignmentStatus_isPending(a.status)
    THEN [threw |-> TRUE, e |-> a]
    ELSE [threw |-> FALSE, e |-> [a EXCEPT !.status = "ACCEPTED"]]

Assignment_accept(a) ==
    IF ~AssignmentStatus_isPending(a.status)
    THEN [threw |-> TRUE, e |-> a]
    ELSE [threw |-> FALSE,
          e |-> [a EXCEPT !.status = "ACCEPTED", !.respondedAt = 1]]

Mut_Assignment_reject(a) ==
    IF ~AssignmentStatus_isPending(a.status)
    THEN [threw |-> TRUE, e |-> a]
    ELSE [threw |-> FALSE, e |-> [a EXCEPT !.status = "REJECTED"]]

Assignment_reject(a) ==
    IF ~AssignmentStatus_isPending(a.status)
    THEN [threw |-> TRUE, e |-> a]
    ELSE [threw |-> FALSE,
          e |-> [a EXCEPT !.status = "REJECTED", !.respondedAt = 1]]

Mut_Assignment_complete(a) ==
    IF ~AssignmentStatus_isActive(a.status)
    THEN [threw |-> TRUE, e |-> a]
    ELSE [threw |-> FALSE, e |-> [a EXCEPT !.status = "COMPLETED"]]

Assignment_complete(a) ==
    IF ~AssignmentStatus_isAccepted(a.status)
    THEN [threw |-> TRUE, e |-> a]
    ELSE [threw |-> FALSE, e |-> [a EXCEPT !.status = "COMPLETED"]]

Mut_Assignment_cancel_active(a) ==
    IF ~AssignmentStatus_isActive(a.status)
    THEN [threw |-> TRUE, e |-> a]
    ELSE [threw |-> FALSE, e |-> [a EXCEPT !.status = "CANCELLED"]]

Mut_Assignment_cancel_any(a) ==
    [threw |-> FALSE, e |-> [a EXCEPT !.status = "CANCELLED"]]

Assignment_cancel(a) ==
    IF AssignmentStatus_isCompleted(a.status)
    THEN [threw |-> TRUE, e |-> a]
    ELSE [threw |-> FALSE, e |-> [a EXCEPT !.status = "CANCELLED"]]

----------------------------------------------------------------------------
(* Entity specification: one Order and one Assignment, constructed with    *)
(* any status, on which transition methods are called in any order.        *)

\* responded: some accept or reject call on the assignment has succeeded.
NoCall == [entity |-> "none", op |-> "none", pre |-> "none", preResp |-> NULL,
           threw |-> FALSE, responded |-> FALSE]

NoRow == [orderId |-> NULL, courierId |-> NULL, status |-> "NONE", respondedAt |-> NULL]

NoSnap == [orders |-> <<>>, assignments |-> <<>>, nev |-> 0]

NoProc == [kind |-> "none", pc |-> "idle", orderId |-> NULL, asgId |-> NULL,
           courierId |-> NULL, lOrder |-> [id |-> NULL, status |-> "NONE"],
           lAsg |-> NoRow, writes |-> <<>>, err |-> "none", at |-> "none",
           alone |-> TRUE,
           pre |-> NoSnap,
           indep |-> TRUE,
           own |-> NoSnap]

StoreInit ==
    /\ orders = [o \in OrderIds |-> "NONE"]
    /\ assignments = [a \in AsgIds |-> NoRow]
    /\ events = <<>>
    /\ nextOrderId = 1
    /\ nextAsgId = 1
    /\ nextEventId = 1
    /\ proc = [p \in Procs |-> NoProc]
    /\ execs = 0

EntityInit ==
    /\ StoreInit
    /\ \E s \in OrderStatusType : order = [status |-> s, ctor |-> s]
    /\ \E s \in AssignmentStatusType, r \in {NULL, 1} :
          assignment = [status |-> s, respondedAt |-> r, ctor |-> s, ctorResp |-> r]
    /\ lastCall = NoCall
    /\ calls = 0
    /\ params = ValidParams
    /\ history = "pre"

CallOrder(op, res) ==
    /\ calls < MaxCalls
    /\ calls' = calls + 1
    /\ order' = res.e
    /\ lastCall' = [entity |-> "order", op |-> op, pre |-> order.status,
                    preResp |-> NULL, threw |-> res.threw,
                    responded |-> lastCall.responded]
    /\ UNCHANGED <<assignment, storeVars>>

CallAssignment(op, res) ==
    /\ calls < MaxCalls
    /\ calls' = calls + 1
    /\ assignment' = res.e
    /\ lastCall' = [entity |-> "assignment", op |-> op, pre |-> assignment.status,
                    preResp |-> assignment.respondedAt, threw |-> res.threw,
                    responded |-> \/ lastCall.responded
                                  \/ op \in {"accept", "reject"} /\ ~res.threw]
    /\ UNCHANGED <<order, storeVars>>

CallMarkReadyToShip == CallOrder("markReadyToShip", Order_markReadyToShip(order))

CallAssign == CallOrder("assign", Order_assign(order))

CallDeliver == CallOrder("deliver", Order_deliver(order))

CallOrderCancel == CallOrder("cancel", Order_cancel(order))

CallAccept == CallAssignment("accept", Assignment_accept(assignment))

CallReject == CallAssignment("reject", Assignment_reject(assignment))

CallComplete == CallAssignment("complete", Assignment_complete(assignment))

CallAssignmentCancel == CallAssignment("cancel", Assignment_cancel(assignment))

EntityNext ==
    \/ CallMarkReadyToShip
    \/ CallAssign
    \/ CallDeliver
    \/ CallOrderCancel
    \/ CallAccept
    \/ CallReject
    \/ CallComplete
    \/ CallAssignmentCancel

EntitySpec == EntityInit /\ [][EntityNext]_vars

----------------------------------------------------------------------------
(* Repositories.  TypeORM's save() inserts the row when no row has its     *)
(* primary key and updates it otherwise; both repositories' update() call  *)
(* the same save().  A row is written whole (toEntity copies every field). *)

Mut_OrderRepository_findById(tbl, id) ==
    [null |-> FALSE, e |-> [id |-> id, status |-> tbl[id]]]

OrderRepository_findById(tbl, id) ==
    IF tbl[id] = "NONE"
    THEN [null |-> TRUE, e |-> [id |-> id, status |-> "NONE"]]
    ELSE [null |-> FALSE, e |-> [id |-> id, status |-> tbl[id]]]

Mut_OrderRepository_save(tbl, o) == tbl

OrderRepository_save(tbl, o) == [tbl EXCEPT ![o.id] = o.status]

Mut_OrderRepository_update(tbl, o) ==
    [i \in DOMAIN tbl |-> IF tbl[i] # "NONE" THEN o.status ELSE tbl[i]]

OrderRepository_update(tbl, o) == [tbl EXCEPT ![o.id] = o.status]

AssignmentRepository_findById(tbl, id) ==
    IF tbl[id].status = "NONE"
    THEN [null |-> TRUE, e |-> NoRow]
    ELSE [null |-> FALSE, e |-> tbl[id]]

Mut_ActiveStatusCondition == "ACCEPTED"

\* The where-clause value 'PENDING' || 'ACCEPTED' is the JavaScript
\* expression whose value is its first truthy operand.
ActiveStatusCondition == "PENDING"

\* The rows findOne may return: any row of the order whose status equals the
\* where-clause value.  The result is null iff there is none.
AssignmentRepository_findActiveByOrderId(tbl, orderId) ==
    {a \in AsgIds : /\ tbl[a].status # "NONE"
                    /\ tbl[a].orderId = orderId
                    /\ tbl[a].status = ActiveStatusCondition}

Mut_uq_assignment_order(tbl, id, row) == TRUE

\* @Unique('uq_assignment_order', ['orderId']): no other row has the order id.
uq_assignment_order(tbl, id, row) ==
    \A b \in AsgIds : (b # id /\ tbl[b].status # "NONE") => tbl[b].orderId # row.orderId

Mut_AssignmentRepository_save(tbl, id, row) ==
    IF uq_assignment_order(tbl, id, row)
    THEN [ok |-> TRUE, tbl |-> [tbl EXCEPT ![id] = [row EXCEPT !.courierId = NULL]]]
    ELSE [ok |-> FALSE, tbl |-> tbl]

AssignmentRepository_save(tbl, id, row) ==
    IF uq_assignment_order(tbl, id, row)
    THEN [ok |-> TRUE, tbl |-> [tbl EXCEPT ![id] = row]]
    ELSE [ok |-> FALSE, tbl |-> tbl]

Mut_AssignmentRepository_update_lost(tbl, id, row) == [ok |-> TRUE, tbl |-> tbl]

Mut_AssignmentRepository_update(tbl, id, row) ==
    IF uq_assignment_order(tbl, id, row) /\ tbl[id].status = "PENDING"
    THEN [ok |-> TRUE, tbl |-> [tbl EXCEPT ![id] = row]]
    ELSE [ok |-> FALSE, tbl |-> tbl]

AssignmentRepository_update(tbl, id, row) ==
    IF uq_assignment_order(tbl, id, row)
    THEN [ok |-> TRUE, tbl |-> [tbl EXCEPT ![id] = row]]
    ELSE [ok |-> FALSE, tbl |-> tbl]

\* save() on the event table: a row with a new primary key is inserted, a
\* row whose primary key is already there replaces the stored one.
DeliveryEventRepository_save(tbl, ev) ==
    IF \E i \in 1..Len(tbl) : tbl[i].id = ev.id
    THEN [i \in 1..Len(tbl) |-> IF tbl[i].id = ev.id THEN ev ELSE tbl[i]]
    ELSE Append(tbl, ev)

Mut_DeliveryEventId(orderId) == orderId

\* new DeliveryEventId(uuidv4()): an id no event has been given before.
DeliveryEventId(orderId) == nextEventId

NewEvent(orderId, courierId, type, asgId) ==
    [id |-> DeliveryEventId(orderId), orderId |-> orderId, courierId |-> courierId,
     type |-> type,
     payload |-> [assignmentId |-> asgId, courierId |-> courierId]]

----------------------------------------------------------------------------
(* Use-case executions *)

Finished(p) == proc[p].pc \in {"idle", "done", "failed"}

\* Executions are interchangeable: a new one takes the lowest free slot.
CanStart(p) ==
    /\ execs < MaxExecs
    /\ Finished(p)
    /\ \A q \in Procs : q < p => ~Finished(q)

Snapshot == [orders |-> orders, assignments |-> assignments, nev |-> Len(events)]

\* The part of the stores that belongs to order o: its row, the assignment
\* rows that carry its id, and the number of its events.
OwnSnapshot(o) ==
    [orders |-> [i \in OrderIds |-> IF i = o THEN orders[i] ELSE "NONE"],
     assignments |-> [a \in AsgIds |-> IF assignments[a].status # "NONE"
                                          /\ assignments[a].orderId = o
                                       THEN assignments[a] ELSE NoRow],
     nev |-> Cardinality({i \in 1..Len(events) : events[i].orderId = o})]

\* Execution p moves to rec, and the record of an execution that had
\* returned is dropped.  Under history "pre" every other running execution
\* has been interleaved with: its snapshot of the stores at its start is of
\* no use any more.  Under history "own" a running execution for the same
\* order as p is no longer independent of the others.
Step(p, rec) ==
    proc' = [q \in Procs |->
                IF q = p THEN rec
                ELSE IF Finished(q) THEN NoProc
                ELSE IF history = "pre"
                THEN [proc[q] EXCEPT !.alone = FALSE, !.pre = NoSnap]
                ELSE IF rec.orderId # NULL /\ rec.orderId = proc[q].orderId
                THEN [proc[q] EXCEPT !.indep = FALSE, !.own = NoSnap]
                ELSE proc[q]]

Write(tbl, id, status) == [tbl |-> tbl, id |-> id, status |-> status]

\* The record of an execution that is called now with these arguments and
\* whose first repository call is pc.
Begin(kind, pc, orderId, asgId, courierId) ==
    [NoProc EXCEPT !.kind = kind, !.pc = pc, !.orderId = orderId,
                   !.asgId = asgId, !.courierId = courierId,
                   !.alone = (history = "pre"),
                   !.pre = IF history = "pre" THEN Snapshot ELSE NoSnap,
                   !.indep = (history = "own"),
                   !.own = IF history = "own"
                           THEN OwnSnapshot(IF asgId # NULL
                                            THEN assignments[asgId].orderId
                                            ELSE orderId)
                           ELSE NoSnap]

\* The execution in state rec ends with error err, thrown at its call rec.pc.
Fail(p, rec, err) ==
    Step(p, [rec EXCEPT !.pc = "failed", !.err = err, !.at = rec.pc])

\* Execution p is called now.
Called(p) == CanStart(p) /\ execs' = execs + 1

(* PlaceOrderUseCase.execute *)

\* new Order({...}): the value objects execute constructs from its input
\* before its first repository call; one constructor that throws ends it.
NewOrderThrows(in) ==
    \/ AccountId(in.shipperId).threw
    \/ Address(in.pickupAddress).threw
    \/ Address(in.dropoffAddress).threw
    \/ TimeWindow(in.pickupStartAt, in.pickupEndAt).threw
    \/ TimeWindow(in.dropStartAt, in.dropEndAt).threw
    \/ Weight(IF in.totalWeightKg.given THEN in.totalWeightKg.kg ELSE 0).threw

\* execute is called with input whose value objects cannot be constructed.
PlaceOrderInvalid(p) ==
    /\ Called(p)
    /\ NewOrderThrows(params)
    /\ Fail(p, Begin("PlaceOrder", "place_new", NULL, NULL, NULL), "validation_error")
    /\ UNCHANGED <<orders, assignments, events, nextOrderId, nextEventId, nextAsgId,
                   entityVars, params, history>>

\* new Order({id: uuidv4(), status: PLACED, ...}); orderRepository.save(order),
\* whose result (the saved row, mapped back by toDomain) is what execute returns.
PlaceSaveOrder(p) ==
    /\ nextOrderId <= MaxOrders
    /\ Called(p)
    /\ ~NewOrderThrows(params)
    /\ LET me == Begin("PlaceOrder", "place_save", nextOrderId, NULL, NULL)
           o == [id |-> nextOrderId, status |-> "PLACED"]
       IN /\ nextOrderId' = nextOrderId + 1
          /\ orders' = OrderRepository_save(orders, o)
          /\ Step(p, [me EXCEPT !.pc = "place_event",
                         !.lOrder = OrderRepository_findById(orders', o.id).e,
                         !.writes = Append(@, Write("order", o.id, o.status))])
    /\ UNCHANGED <<assignments, events, nextAsgId, nextEventId, entityVars, params, history>>

PlaceSaveEvent(p) ==
    /\ proc[p].pc = "place_event"
    /\ events' = DeliveryEventRepository_save(events,
                     NewEvent(proc[p].orderId, NULL, "ORDER_PLACED", NULL))
    /\ Step(p, [proc[p] EXCEPT !.pc = "done",
                   !.writes = Append(@, Write("event", proc[p].orderId, "ORDER_PLACED"))])
    /\ nextEventId' = nextEventId + 1
    /\ UNCHANGED <<orders, assignments, nextOrderId, nextAsgId, execs, entityVars, params, history>>

(* MarkReadyToShipUseCase.execute *)

\* orderRepository.findById(orderId); order.markReadyToShip()
MarkFindOrder(p, orderId) ==
    /\ LET me == Begin("MarkReadyToShip", "mark_find", orderId, NULL, NULL)
           found == OrderRepository_findById(orders, orderId)
           res == Order_markReadyToShip(found.e)
       IN /\ Called(p)
          /\ IF found.null THEN Fail(p, me, "order_not_found")
             ELSE IF res.threw THEN Fail(p, me, "invalid_state")
             ELSE Step(p, [me EXCEPT !.pc = "mark_update", !.lOrder = res.e])
    /\ UNCHANGED <<orders, assignments, events, nextOrderId, nextEventId, nextAsgId, entityVars, params, history>>

Mut_MarkUpdateOrder(p) ==
    /\ proc[p].pc = "mark_update"
    /\ Step(p, [proc[p] EXCEPT !.pc = "mark_event"])
    /\ UNCHANGED <<orders, assignments, events, nextOrderId, nextEventId, nextAsgId, execs, entityVars, params, history>>

MarkUpdateOrder(p) ==
    /\ proc[p].pc = "mark_update"
    /\ orders' = OrderRepository_update(orders, proc[p].lOrder)
    /\ Step(p, [proc[p] EXCEPT !.pc = "mark_event",
                   !.writes = Append(@, Write("order", proc[p].lOrder.id,
                                              proc[p].lOrder.status))])
    /\ UNCHANGED <<assignments, events, nextOrderId, nextEventId, nextAsgId, execs, entityVars, params, history>>

MarkSaveEvent(p) ==
    /\ proc[p].pc = "mark_event"
    /\ events' = DeliveryEventRepository_save(events,
                     NewEvent(proc[p].lOrder.id, NULL, "READY_TO_SHIP", NULL))
    /\ Step(p, [proc[p] EXCEPT !.pc = "done",
                   !.writes = Append(@, Write("event", proc[p].lOrder.id, "READY_TO_SHIP"))])
    /\ nextEventId' = nextEventId + 1
    /\ UNCHANGED <<orders, assignments, nextOrderId, nextAsgId, execs, entityVars, params, history>>

(* OfferAssignmentUseCase.execute *)

\* orderRepository.findById(orderId); order.canBeAssigned()
OfferFindOrder(p, orderId, courierId) ==
    /\ LET me == Begin("OfferAssignment", "offer_findOrder", orderId, NULL, courierId)
           found == OrderRepository_findById(orders, orderId)
       IN /\ Called(p)
          /\ IF found.null THEN Fail(p, me, "order_not_found")
             ELSE IF ~Order_canBeAssigned(found.e) THEN Fail(p, me, "not_ready_to_ship")
             ELSE Step(p, [me EXCEPT !.pc = "offer_findActive", !.lOrder = found.e])
    /\ UNCHANGED <<orders, assignments, events, nextOrderId, nextEventId, nextAsgId, entityVars, params, history>>

\* assignmentRepository.findActiveByOrderId(order.id); new Assignment({id: uuidv4(), ...})
OfferFindActive(p) ==
    /\ proc[p].pc = "offer_findActive"
    /\ IF AssignmentRepository_findActiveByOrderId(assignments, proc[p].lOrder.id) # {}
       THEN Fail(p, proc[p], "conflict") /\ UNCHANGED nextAsgId
       ELSE /\ nextAsgId <= MaxAsgs
            /\ nextAsgId' = nextAsgId + 1
            /\ Step(p, [proc[p] EXCEPT !.pc = "offer_save", !.asgId = nextAsgId,
                           !.lAsg = [orderId |-> proc[p].lOrder.id,
                                     courierId |-> proc[p].courierId,
                                     status |-> "PENDING", respondedAt |-> NULL]])
    /\ UNCHANGED <<orders, assignments, events, nextOrderId, nextEventId, execs, entityVars, params, history>>

OfferSaveAssignment(p) ==
    /\ proc[p].pc = "offer_save"
    /\ LET res == AssignmentRepository_save(assignments, proc[p].asgId, proc[p].lAsg)
       IN /\ assignments' = res.tbl
          /\ IF res.ok
             THEN Step(p, [proc[p] EXCEPT !.pc = "done",
                              !.writes = Append(@, Write("assignment", proc[p].asgId,
                                                         proc[p].lAsg.status))])
             ELSE Fail(p, proc[p], "unique_violation")
    /\ UNCHANGED <<orders, events, nextOrderId, nextEventId, nextAsgId, execs, entityVars, params, history>>

(* AcceptAssignmentUseCase.execute *)

\* assignmentRepository.findById(assignmentId); assignment.accept()
AcceptFindAssignment(p, asgId) ==
    /\ LET me == Begin("AcceptAssignment", "accept_find", NULL, asgId, NULL)
           found == AssignmentRepository_findById(assignments, asgId)
           res == Assignment_accept(found.e)
       IN /\ Called(p)
          /\ IF found.null THEN Fail(p, me, "assignment_not_found")
             ELSE IF res.threw THEN Fail(p, me, "invalid_state")
             ELSE Step(p, [me EXCEPT !.pc = "accept_update", !.lAsg = res.e,
                              !.orderId = res.e.orderId, !.courierId = res.e.courierId])
    /\ UNCHANGED <<orders, assignments, events, nextOrderId, nextEventId, nextAsgId, entityVars, params, history>>

AcceptUpdateAssignment(p) ==
    /\ proc[p].pc = "accept_update"
    /\ LET res == AssignmentRepository_update(assignments, proc[p].asgId, proc[p].lAsg)
       IN /\ assignments' = res.tbl
          /\ IF res.ok
             THEN Step(p, [proc[p] EXCEPT !.pc = "accept_findOrder",
                              !.writes = Append(@, Write("assignment", proc[p].asgId,
                                                         proc[p].lAsg.status))])
             ELSE Fail(p, proc[p], "update_rejected")
    /\ UNCHANGED <<orders, events, nextOrderId, nextEventId, nextAsgId, execs, entityVars, params, history>>

\* orderRepository.findById(assignment.orderId); order.assign()
AcceptFindOrder(p) ==
    /\ proc[p].pc = "accept_findOrder"
    /\ LET found == OrderRepository_findById(orders, proc[p].lAsg.orderId)
           res == Order_assign(found.e)
       IN IF found.null THEN Fail(p, proc[p], "order_not_found")
          ELSE IF res.threw THEN Fail(p, proc[p], "order_invalid_state")
          ELSE Step(p, [proc[p] EXCEPT !.pc = "accept_updateOrder", !.lOrder = res.e])
    /\ UNCHANGED <<orders, assignments, events, nextOrderId, nextEventId, nextAsgId, execs, entityVars, params, history>>

AcceptUpdateOrder(p) ==
    /\ proc[p].pc = "accept_updateOrder"
    /\ orders' = OrderRepository_update(orders, proc[p].lOrder)
    /\ Step(p, [proc[p] EXCEPT !.pc = "accept_event",
                   !.writes = Append(@, Write("order", proc[p].lOrder.id,
                                              proc[p].lOrder.status))])
    /\ UNCHANGED <<assignments, events, nextOrderId, nextEventId, nextAsgId, execs, entityVars, params, history>>

AcceptSaveEvent(p) ==
    /\ proc[p].pc = "accept_event"
    /\ events' = DeliveryEventRepository_save(events,
                     NewEvent(proc[p].lAsg.orderId, proc[p].lAsg.courierId,
                              "ASSIGNED", proc[p].asgId))
    /\ Step(p, [proc[p] EXCEPT !.pc = "done",
                   !.writes = Append(@, Write("event", proc[p].lAsg.orderId, "ASSIGNED"))])
    /\ nextEventId' = nextEventId + 1
    /\ UNCHANGED <<orders, assignments, nextOrderId, nextAsgId, execs, entityVars, params, history>>

\* A repository write that fails with a storage error: the call changes
\* nothing and the execution ends with the error.  (A failing read ends the
\* execution where its not-found error does, so it adds no behaviour.)
WritePcs == {"place_event", "mark_update", "mark_event", "offer_save",
             "accept_update", "accept_updateOrder", "accept_event"}

StorageFail(p) ==
    /\ proc[p].pc \in WritePcs
    /\ Fail(p, proc[p], "storage_error")
    /\ UNCHANGED <<orders, assignments, events, nextOrderId, nextEventId, nextAsgId, execs, entityVars, params, history>>

\* The order save of PlaceOrder, its first repository call, fails.
PlaceSaveOrderFail(p) ==
    /\ nextOrderId <= MaxOrders
    /\ Called(p)
    /\ ~NewOrderThrows(params)
    /\ Fail(p, Begin("PlaceOrder", "place_save", nextOrderId, NULL, NULL), "storage_error")
    /\ UNCHANGED <<orders, assignments, events, nextOrderId, nextEventId, nextAsgId, entityVars, params, history>>

Init ==
    /\ StoreInit
    /\ order = [status |-> "PLACED", ctor |-> "PLACED"]
    /\ assignment = [status |-> "PENDING", respondedAt |-> NULL,
                     ctor |-> "PENDING", ctorResp |-> NULL]
    /\ lastCall = NoCall
    /\ calls = 0
    /\ params = ValidParams
    /\ history = "pre"

Next ==
    \E p \in Procs :
        \/ PlaceSaveOrder(p)
        \/ PlaceSaveEvent(p)
        \/ \E o \in OrderIds : MarkFindOrder(p, o)
        \/ MarkUpdateOrder(p)
        \/ MarkSaveEvent(p)
        \/ \E o \in OrderIds, c \in CourierIds : OfferFindOrder(p, o, c)
        \/ OfferFindActive(p)
        \/ OfferSaveAssignment(p)
        \/ \E a \in AsgIds : AcceptFindAssignment(p, a)
        \/ AcceptUpdateAssignment(p)
        \/ AcceptFindOrder(p)
        \/ AcceptUpdateOrder(p)
        \/ AcceptSaveEvent(p)

Spec == Init /\ [][Next]_vars

\* The same executions, each recording the rows of its own order at its
\* start instead of the whole stores.
IndepInit ==
    /\ StoreInit
    /\ order = [status |-> "PLACED", ctor |-> "PLACED"]
    /\ assignment = [status |-> "PENDING", respondedAt |-> NULL,
                     ctor |-> "PENDING", ctorResp |-> NULL]
    /\ lastCall = NoCall
    /\ calls = 0
    /\ params = ValidParams
    /\ history = "own"

IndepSpec == IndepInit /\ [][Next]_vars

FaultyNext ==
    \/ Next
    \/ \E p \in Procs : StorageFail(p)
    \/ \E p \in Procs : PlaceSaveOrderFail(p)

SpecFaulty == Init /\ [][FaultyNext]_vars

\* Executions that run one at a time: a step is taken only while no other
\* execution is in flight.
SeqNext ==
    \E p \in Procs :
        /\ \A q \in Procs \ {p} : Finished(q)
        /\ \/ PlaceSaveOrder(p)
           \/ PlaceSaveEvent(p)
           \/ \E o \in OrderIds : MarkFindOrder(p, o)
           \/ MarkUpdateOrder(p)
           \/ MarkSaveEvent(p)
           \/ \E o \in OrderIds, c \in CourierIds : OfferFindOrder(p, o, c)
           \/ OfferFindActive(p)
           \/ OfferSaveAssignment(p)
           \/ \E a \in AsgIds : AcceptFindAssignment(p, a)
           \/ AcceptUpdateAssignment(p)
           \/ AcceptFindOrder(p)
           \/ AcceptUpdateOrder(p)
           \/ AcceptSaveEvent(p)

SeqSpec == Init /\ [][SeqNext]_vars

\* PlaceOrder called with any input, one call at a time: what a call does
\* with its input before its first repository call involves no other call.
PlaceInit ==
    /\ StoreInit
    /\ order = [status |-> "PLACED", ctor |-> "PLACED"]
    /\ assignment = [status |-> "PENDING", respondedAt |-> NULL,
                     ctor |-> "PENDING", ctorResp |-> NULL]
    /\ lastCall = NoCall
    /\ calls = 0
    /\ params \in PlaceOrderParams
    /\ history = "pre"

PlaceNext ==
    \E p \in {1} :
        \/ PlaceOrderInvalid(p)
        \/ PlaceSaveOrder(p)
        \/ PlaceSaveEvent(p)

PlaceSpec == PlaceInit /\ [][PlaceNext]_vars

\* OfferAssignment called on tables that hold what earlier requests left
\* there: one order with any status and at most one assignment for it, with
\* any status (the unique constraint admits no second one).
StoredRows ==
    [orderId : {1}, courierId : {1}, status : AssignmentStatusType,
     respondedAt : {NULL, 1}]

OfferInit ==
    /\ \E s \in OrderStatusType :
          orders = [o \in OrderIds |-> IF o = 1 THEN s ELSE "NONE"]
    /\ \E row \in StoredRows \cup {NoRow} :
          /\ assignments = [a \in AsgIds |-> IF a = 1 THEN row ELSE NoRow]
          /\ nextAsgId = IF row = NoRow THEN 1 ELSE 2
    /\ events = <<>>
    /\ nextOrderId = 2
    /\ nextEventId = 1
    /\ proc = [p \in Procs |-> NoProc]
    /\ execs = 0
    /\ order = [status |-> "PLACED", ctor |-> "PLACED"]
    /\ assignment = [status |-> "PENDING", respondedAt |-> NULL,
                     ctor |-> "PENDING", ctorResp |-> NULL]
    /\ lastCall = NoCall
    /\ calls = 0
    /\ params = ValidParams
    /\ history = "pre"

OfferNext ==
    \E p \in Procs :
        \/ \E o \in OrderIds, c \in CourierIds : OfferFindOrder(p, o, c)
        \/ OfferFindActive(p)
        \/ OfferSaveAssignment(p)

OfferSpec == OfferInit /\ [][OfferNext]_vars

----------------------------------------------------------------------------
(* Use-case claims *)

ActiveOf(o) ==
    {a \in AsgIds : /\ assignments[a].status # "NONE"
                    /\ assignments[a].orderId = o
                    /\ AssignmentStatus_isActive(assignments[a].status)}

\* C1: under any interleaving of OfferAssignment and AcceptAssignment
\* executions, every order has at most one persisted assignment whose status
\* is PENDING or ACCEPTED.
C1_OneActiveAssignment ==
    \A o \in OrderIds : Cardinality(ActiveOf(o)) <= 1

\* Two interleaved offers for one order both passed the active-assignment
\* query; the first was persisted and the second was refused by storage.
C1_Witness ==
    \E q \in Procs :
        /\ proc[q].kind = "OfferAssignment"
        /\ proc[q].pc = "failed" /\ proc[q].err = "unique_violation"
        /\ Cardinality(ActiveOf(proc[q].lOrder.id)) = 1

AcceptedBy(p) == Write("assignment", proc[p].asgId, "ACCEPTED")

AcceptAlonePre(p) ==
    /\ proc[p].kind = "AcceptAssignment"
    /\ proc[p].alone
    /\ proc[p].pre.assignments[proc[p].asgId].status = "PENDING"
    /\ proc[p].pre.orders[proc[p].pre.assignments[proc[p].asgId].orderId] = "READY_TO_SHIP"

AcceptAlonePost(p) ==
    LET a == proc[p].asgId
        row == proc[p].pre.assignments[a]
    IN /\ proc[p].pc = "done"
       /\ assignments[a].status = "ACCEPTED"
       /\ assignments[a].respondedAt # NULL
       /\ orders[row.orderId] = "ASSIGNED"
       /\ Len(events) = proc[p].pre.nev + 1
       /\ events[Len(events)].type = "ASSIGNED"
       /\ events[Len(events)].orderId = row.orderId
       /\ events[Len(events)].courierId = row.courierId

\* C2: AcceptAssignment executed alone on a persisted PENDING assignment
\* whose order is persisted READY_TO_SHIP ends in success, with the
\* assignment ACCEPTED and respondedAt set, the order ASSIGNED, and exactly
\* one event added, of type ASSIGNED, with that order id and courier id.
C2_AcceptAlone ==
    \A p \in Procs :
        (AcceptAlonePre(p) /\ proc[p].pc \in {"done", "failed"}) => AcceptAlonePost(p)

C2_Witness ==
    \E p \in Procs : AcceptAlonePre(p) /\ AcceptAlonePost(p)

\* The execution failed after its assignment write: at the order lookup, at
\* assign(), or at the order update.
FailedAfterAccept(p) ==
    /\ proc[p].kind = "AcceptAssignment"
    /\ proc[p].pc = "failed"
    /\ \/ proc[p].err \in {"order_not_found", "order_invalid_state"}
       \/ proc[p].err = "storage_error" /\ proc[p].at = "accept_updateOrder"

\* C3: an AcceptAssignment execution that fails after persisting the
\* assignment as ACCEPTED leaves the assignment ACCEPTED in storage, has
\* written no order row and no event (run alone, the order row and the event
\* store are as they were at its start), and no later step of any execution
\* moves a persisted ACCEPTED assignment to another status.
C3_NoCompensation ==
    /\ [](\A p \in Procs : FailedAfterAccept(p) =>
            /\ assignments[proc[p].asgId].status = "ACCEPTED"
            /\ proc[p].writes = <<AcceptedBy(p)>>
            /\ (proc[p].alone =>
                   /\ orders = proc[p].pre.orders
                   /\ orders[proc[p].lAsg.orderId] # "ASSIGNED"
                   /\ Len(events) = proc[p].pre.nev))
    /\ [][\A a \in AsgIds : assignments[a].status = "ACCEPTED" =>
                               assignments'[a] = assignments[a]]_vars

C3_Witness ==
    \E p \in Procs :
        /\ FailedAfterAccept(p)
        /\ proc[p].alone
        /\ proc[p].at = "accept_updateOrder"
        /\ assignments[proc[p].asgId].status = "ACCEPTED"
        /\ orders[proc[p].lAsg.orderId] = "READY_TO_SHIP"

\* C4: the assignment update of AcceptAssignment is unconditional: an
\* execution that passed the accept() guard on its own read persists
\* ACCEPTED and goes on, whatever status the row has by then, so two
\* executions that both read PENDING both perform the transition.
C4_UnguardedUpdate ==
    [][\A p \in Procs :
          (proc[p].pc = "accept_update" /\ proc'[p].pc # "accept_update") =>
              /\ proc'[p].pc = "accept_findOrder"
              /\ assignments'[proc[p].asgId].status = "ACCEPTED"
              /\ proc'[p].writes = <<AcceptedBy(p)>>]_vars

\* Both executions read the assignment as PENDING (each passed accept())
\* and both have written it as ACCEPTED.
C4_Witness ==
    \E p, q \in Procs :
        /\ p # q
        /\ proc[p].kind = "AcceptAssignment" /\ proc[q].kind = "AcceptAssignment"
        /\ proc[p].asgId = proc[q].asgId
        /\ proc[p].writes # <<>> /\ proc[p].writes[1] = AcceptedBy(p)
        /\ proc[q].writes # <<>> /\ proc[q].writes[1] = AcceptedBy(q)
        /\ assignments[proc[p].asgId].status = "ACCEPTED"


PlaceOrderWrite(p) == Write("order", proc[p].orderId, "PLACED")

PlaceEventWrite(p) == Write("event", proc[p].orderId, "ORDER_PLACED")

\* C12: PlaceOrder performs exactly one order save, of a new Order with
\* status PLACED and an id no order had before, then exactly one event save,
\* of an ORDER_PLACED event with that order's id, and returns the order the
\* order save returned.
C12_PlaceOrder ==
    /\ [](\A p \in Procs : proc[p].kind = "PlaceOrder" =>
            /\ proc[p].lOrder = [id |-> proc[p].orderId, status |-> "PLACED"]
            /\ (proc[p].pc = "place_event" => proc[p].writes = <<PlaceOrderWrite(p)>>)
            /\ (proc[p].pc = "done" =>
                   /\ proc[p].writes = <<PlaceOrderWrite(p), PlaceEventWrite(p)>>
                   /\ events[Len(events)].type = "ORDER_PLACED"
                   /\ events[Len(events)].orderId = proc[p].orderId))
    /\ [][\A p \in Procs :
            /\ (proc'[p].kind = "PlaceOrder" /\ proc'[p].pc = "place_event"
                                             /\ proc[p].pc # "place_event") =>
                   /\ orders[proc'[p].orderId] = "NONE"
                   /\ orders' = [orders EXCEPT ![proc'[p].orderId] = "PLACED"]
                   /\ events' = events
            /\ (proc[p].pc = "place_event" /\ proc'[p].pc = "done") =>
                   /\ orders' = orders
                   /\ Len(events') = Len(events) + 1
                   /\ SubSeq(events', 1, Len(events)) = events]_vars

C12_Witness ==
    \E p \in Procs :
        /\ proc[p].kind = "PlaceOrder" /\ proc[p].pc = "done"
        /\ proc[p].orderId = 2
        /\ orders[2] = "PLACED"
        /\ Len(events) >= 2
        /\ events[Len(events)].orderId = 2

MarkAlone(p) ==
    /\ proc[p].kind = "MarkReadyToShip"
    /\ proc[p].alone
    /\ proc[p].pc \in {"done", "failed"}
    /\ proc[p].pre.orders[proc[p].orderId] # "NONE"

\* C13: MarkReadyToShip executed alone on a persisted order succeeds iff the
\* order's persisted status is PLACED; on success the persisted status is
\* READY_TO_SHIP and exactly one event, of type READY_TO_SHIP for that order,
\* has been added; on an order with any other status it fails with no order
\* update and no event save.
C13_MarkAlone ==
    \A p \in Procs : MarkAlone(p) =>
        LET o == proc[p].orderId IN
        /\ (proc[p].pc = "done" <=> proc[p].pre.orders[o] = "PLACED")
        /\ (proc[p].pc = "done" =>
               /\ orders = [proc[p].pre.orders EXCEPT ![o] = "READY_TO_SHIP"]
               /\ Len(events) = proc[p].pre.nev + 1
               /\ events[Len(events)].type = "READY_TO_SHIP"
               /\ events[Len(events)].orderId = o)
        /\ (proc[p].pc = "failed" =>
               /\ proc[p].err = "invalid_state"
               /\ proc[p].writes = <<>>
               /\ orders = proc[p].pre.orders
               /\ Len(events) = proc[p].pre.nev)

C13_Witness ==
    \E p \in Procs :
        /\ MarkAlone(p)
        /\ proc[p].pc = "done"
        /\ orders[proc[p].orderId] = "READY_TO_SHIP"
        /\ proc[p].pre.orders[proc[p].orderId] = "PLACED"

\* Execution p has returned and no other execution took a step during it.
ReturnedAlone(p, kind) ==
    /\ proc[p].kind = kind
    /\ proc[p].alone
    /\ proc[p].pc \in {"done", "failed"}

\* Every store is as it was when execution p was called.
StoresAsBefore(p) ==
    /\ orders = proc[p].pre.orders
    /\ assignments = proc[p].pre.assignments
    /\ Len(events) = proc[p].pre.nev

\* C14: OfferAssignment on a persisted order whose status is not
\* READY_TO_SHIP fails with the 'required status READY_TO_SHIP' error at the
\* order check, writes nothing and leaves every store as it was.
C14_OfferNotReady ==
    \A p \in Procs :
        (/\ ReturnedAlone(p, "OfferAssignment")
         /\ proc[p].pre.orders[proc[p].orderId] \notin {"NONE", "READY_TO_SHIP"}) =>
            /\ proc[p].pc = "failed"
            /\ proc[p].err = "not_ready_to_ship"
            /\ proc[p].at = "offer_findOrder"
            /\ proc[p].writes = <<>>
            /\ StoresAsBefore(p)

C14_Witness ==
    \E p \in Procs :
        /\ ReturnedAlone(p, "OfferAssignment")
        /\ proc[p].pre.orders[proc[p].orderId] = "ASSIGNED"
        /\ proc[p].err = "not_ready_to_ship"

\* The assignments of order o that were persisted active (PENDING or
\* ACCEPTED) when execution p was called.
ActiveBefore(p, o) ==
    {a \in AsgIds : /\ proc[p].pre.assignments[a].status # "NONE"
                    /\ proc[p].pre.assignments[a].orderId = o
                    /\ AssignmentStatus_isActive(proc[p].pre.assignments[a].status)}

\* C15: OfferAssignment on a READY_TO_SHIP order that already has a
\* persisted assignment with status PENDING or ACCEPTED fails with the
\* conflict error of the active-assignment check and persists no new
\* assignment.
C15_OfferConflict ==
    \A p \in Procs :
        (/\ ReturnedAlone(p, "OfferAssignment")
         /\ proc[p].pre.orders[proc[p].orderId] = "READY_TO_SHIP"
         /\ ActiveBefore(p, proc[p].orderId) # {}) =>
            /\ proc[p].pc = "failed"
            /\ proc[p].err = "conflict"
            /\ assignments = proc[p].pre.assignments

OfferedRow(p) ==
    [orderId |-> proc[p].lOrder.id, courierId |-> proc[p].courierId,
     status |-> "PENDING", respondedAt |-> NULL]

\* C16: a successful OfferAssignment has made exactly one write, of a new
\* assignment with status PENDING, the loaded order's id, the given courier
\* id and respondedAt null; no step of an OfferAssignment changes the order
\* store or the event store, and after one that ran alone the order is still
\* READY_TO_SHIP and every other assignment row is as it was.
C16_OfferSuccess ==
    /\ [](\A p \in Procs :
            (proc[p].kind = "OfferAssignment" /\ proc[p].pc = "done") =>
                /\ proc[p].writes = <<Write("assignment", proc[p].asgId, "PENDING")>>
                /\ proc[p].lOrder.id = proc[p].orderId
                /\ assignments[proc[p].asgId] = OfferedRow(p)
                /\ proc[p].alone =>
                      /\ proc[p].pre.assignments[proc[p].asgId] = NoRow
                      /\ assignments = [proc[p].pre.assignments
                                           EXCEPT ![proc[p].asgId] = OfferedRow(p)]
                      /\ orders = proc[p].pre.orders
                      /\ orders[proc[p].orderId] = "READY_TO_SHIP"
                      /\ Len(events) = proc[p].pre.nev)
    /\ [][\A p \in Procs :
            (proc'[p].kind = "OfferAssignment" /\ proc'[p].pc # proc[p].pc) =>
                (orders' = orders /\ events' = events)]_vars

C16_Witness ==
    \E p \in Procs :
        /\ ReturnedAlone(p, "OfferAssignment")
        /\ proc[p].pc = "done"
        /\ proc[p].courierId = 2
        /\ assignments[proc[p].asgId].courierId = 2
        /\ assignments[proc[p].asgId].status = "PENDING"

\* C17: AcceptAssignment on a persisted assignment whose status is not
\* PENDING fails with the invalid-state error of Assignment.accept, writes
\* nothing and leaves every store as it was.
C17_AcceptNotPending ==
    \A p \in Procs :
        (/\ ReturnedAlone(p, "AcceptAssignment")
         /\ proc[p].pre.assignments[proc[p].asgId].status \notin {"NONE", "PENDING"}) =>
            /\ proc[p].pc = "failed"
            /\ proc[p].err = "invalid_state"
            /\ proc[p].at = "accept_find"
            /\ proc[p].writes = <<>>
            /\ StoresAsBefore(p)

C17_Witness ==
    \E p \in Procs :
        /\ ReturnedAlone(p, "AcceptAssignment")
        /\ proc[p].pre.assignments[proc[p].asgId].status = "ACCEPTED"
        /\ proc[p].err = "invalid_state"

\* The first lookup of execution p found nothing when p was called.
FirstLookupNull(p) ==
    \/ /\ proc[p].kind \in {"MarkReadyToShip", "OfferAssignment"}
       /\ proc[p].pre.orders[proc[p].orderId] = "NONE"
    \/ /\ proc[p].kind = "AcceptAssignment"
       /\ proc[p].pre.assignments[proc[p].asgId].status = "NONE"

\* C18: a MarkReadyToShip or OfferAssignment whose order id is not persisted,
\* or an AcceptAssignment whose assignment id is not persisted, fails at its
\* first lookup with its not-found error, writes nothing and leaves every
\* store as it was.
C18_NotFound ==
    \A p \in Procs :
        (/\ proc[p].alone
         /\ proc[p].pc \in {"done", "failed"}
         /\ FirstLookupNull(p)) =>
            /\ proc[p].pc = "failed"
            /\ proc[p].err = IF proc[p].kind = "AcceptAssignment"
                             THEN "assignment_not_found" ELSE "order_not_found"
            /\ proc[p].at \in {"mark_find", "offer_findOrder", "accept_find"}
            /\ proc[p].writes = <<>>
            /\ StoresAsBefore(p)

C18_Witness ==
    \E p \in Procs :
        /\ proc[p].kind = "MarkReadyToShip"
        /\ proc[p].pc = "failed"
        /\ proc[p].err = "order_not_found"
        /\ proc[p].orderId = 2
        /\ orders[1] # "NONE" /\ orders[2] = "NONE"

\* C19: findActiveByOrderId returns an assignment iff the order has a
\* persisted assignment whose status is PENDING or ACCEPTED, and whatever it
\* returns has status PENDING or ACCEPTED.
C19_FindActive ==
    \A o \in OrderIds :
        LET found == AssignmentRepository_findActiveByOrderId(assignments, o)
        IN /\ (found # {} <=> ActiveOf(o) # {})
           /\ \A a \in found : AssignmentStatus_isActive(assignments[a].status)

\* C20: the event store is append-only: every step leaves each event that
\* was persisted as it was (same id, orderId, courierId, type and payload)
\* at the same place, and an event that is added has an id no persisted
\* event has.
C20_AppendOnly ==
    /\ [][/\ Len(events') >= Len(events)
          /\ \A i \in 1..Len(events) : events'[i] = events[i]
          /\ \A i \in (Len(events) + 1)..Len(events') :
                \A j \in 1..Len(events) : events'[i].id # events[j].id]_vars
    /\ [](\A i, j \in 1..Len(events) : events[i].id = events[j].id => i = j)

C20_Witness ==
    /\ Len(events) >= 3
    /\ events[1].type = "ORDER_PLACED"
    /\ \E i, j \in 1..Len(events) :
          /\ i < j
          /\ events[i].type = "READY_TO_SHIP"
          /\ events[j].type = "ASSIGNED"
          /\ events[j].orderId = events[i].orderId
          /\ events[j].payload.assignmentId # NULL

\* The order an execution is for: the order it names, or the order of the
\* assignment it names.
OrderOf(rec) ==
    IF rec.kind = "AcceptAssignment"
    THEN assignments[rec.asgId].orderId
    ELSE rec.orderId

\* What each use case does to the rows of its order when it runs from
\* snapshot s with no other execution in between.
SeqPlaceOrder(s, o) ==
    [orders |-> OrderRepository_save(s.orders, [id |-> o, status |-> "PLACED"]),
     assignments |-> s.assignments,
     nev |-> s.nev + 1]

SeqMarkReadyToShip(s, o) ==
    LET found == OrderRepository_findById(s.orders, o)
        res == Order_markReadyToShip(found.e)
    IN IF found.null \/ res.threw THEN s
       ELSE [orders |-> OrderRepository_update(s.orders, res.e),
             assignments |-> s.assignments,
             nev |-> s.nev + 1]

SeqOfferAssignment(s, o, c, a) ==
    LET found == OrderRepository_findById(s.orders, o)
        row == [orderId |-> o, courierId |-> c, status |-> "PENDING",
                respondedAt |-> NULL]
    IN IF found.null \/ ~Order_canBeAssigned(found.e) THEN s
       ELSE IF AssignmentRepository_findActiveByOrderId(s.assignments, o) # {} THEN s
       ELSE [s EXCEPT !.assignments = AssignmentRepository_save(@, a, row).tbl]

SeqAcceptAssignment(s, a) ==
    LET found == AssignmentRepository_findById(s.assignments, a)
        res == Assignment_accept(found.e)
        upd == AssignmentRepository_update(s.assignments, a, res.e)
        fo == OrderRepository_findById(s.orders, res.e.orderId)
        ro == Order_assign(fo.e)
    IN IF found.null \/ res.threw \/ ~upd.ok THEN s
       ELSE IF fo.null \/ ro.threw THEN [s EXCEPT !.assignments = upd.tbl]
       ELSE [orders |-> OrderRepository_update(s.orders, ro.e),
             assignments |-> upd.tbl,
             nev |-> s.nev + 1]

SeqOutcome(p) ==
    CASE proc[p].kind = "PlaceOrder" -> SeqPlaceOrder(proc[p].own, proc[p].orderId)
      [] proc[p].kind = "MarkReadyToShip" ->
             SeqMarkReadyToShip(proc[p].own, proc[p].orderId)
      [] proc[p].kind = "OfferAssignment" ->
             SeqOfferAssignment(proc[p].own, proc[p].orderId, proc[p].courierId,
                                proc[p].asgId)
      [] proc[p].kind = "AcceptAssignment" ->
             SeqAcceptAssignment(proc[p].own, proc[p].asgId)

\* Execution p takes this step.
Actor(p) ==
    /\ proc'[p].pc # "idle"
    /\ Finished(p) \/ proc'[p].pc # proc[p].pc

\* This step changes no order row but o's, no assignment row but those of
\* o, and adds events for o only.
TouchesOnly(o) ==
    /\ \A i \in OrderIds : orders'[i] # orders[i] => i = o
    /\ \A a \in AsgIds : assignments'[a] # assignments[a] =>
          /\ assignments'[a].orderId = o
          /\ assignments[a].status = "NONE" \/ assignments[a].orderId = o
    /\ \A i \in 1..Len(events') :
          (i > Len(events) \/ events'[i] # events[i]) => events'[i].orderId = o

\* C21: a step of an execution changes only the rows of its own order (the
\* order it names or the order of the assignment it names); and an execution
\* during which only executions for other orders took steps leaves the rows
\* of its order as a run of it on its own would.
C21_Independent ==
    /\ [][\A p \in Procs : Actor(p) => TouchesOnly(OrderOf(proc'[p]))]_vars
    /\ [](\A p \in Procs :
            (proc[p].pc \in {"done", "failed"} /\ proc[p].indep) =>
                OwnSnapshot(OrderOf(proc[p])) = SeqOutcome(p))

\* An AcceptAssignment has succeeded, independent of the others, while a
\* PlaceOrder for another order was between its two writes: the order row
\* of that PlaceOrder is the only thing the stores hold of its order.
C21_Witness ==
    \E p, q \in Procs :
        /\ proc[p].kind = "AcceptAssignment"
        /\ proc[p].pc = "done"
        /\ proc[p].indep
        /\ orders[proc[p].orderId] = "ASSIGNED"
        /\ proc[q].kind = "PlaceOrder"
        /\ proc[q].pc = "place_event"
        /\ proc[q].orderId # proc[p].orderId
        /\ orders[proc[q].orderId] = "PLACED"

StatusRank(s) ==
    CASE s = "NONE" -> 0
      [] s = "PLACED" -> 1
      [] s = "READY_TO_SHIP" -> 2
      [] s = "ASSIGNED" -> 3
      [] OTHER -> 4

\* C27: under any interleaving of executions the persisted status of an
\* order never moves backwards along PLACED, READY_TO_SHIP, ASSIGNED: no
\* write replaces a status by an earlier one.
C27_NoBackwards ==
    [][\A o \in OrderIds : StatusRank(orders'[o]) >= StatusRank(orders[o])]_vars

EventsOf(o, type) ==
    {i \in 1..Len(events) : events[i].orderId = o /\ events[i].type = type}

\* C28: under any interleaving of executions, every order has at most one
\* persisted READY_TO_SHIP event and at most one persisted ASSIGNED event.
C28_OneEventPerTransition ==
    \A o \in OrderIds :
        /\ Cardinality(EventsOf(o, "READY_TO_SHIP")) <= 1
        /\ Cardinality(EventsOf(o, "ASSIGNED")) <= 1

\* The order status an event type reports.
Reported(type) ==
    CASE type = "ORDER_PLACED" -> "PLACED"
      [] OTHER -> type

\* C29: in every execution an event write comes right after the same
\* execution's successful write of the order with the status the event
\* reports; an execution whose order write failed has written no event; and
\* every event that is persisted is persisted by such an execution.
C29_EventAfterState ==
    /\ [](\A p \in Procs :
            /\ \A i \in 1..Len(proc[p].writes) :
                  proc[p].writes[i].tbl = "event" =>
                      /\ i > 1
                      /\ proc[p].writes[i - 1] =
                            Write("order", proc[p].writes[i].id,
                                  Reported(proc[p].writes[i].status))
            /\ (proc[p].pc = "failed"
                    /\ proc[p].at \in {"place_save", "mark_update", "accept_updateOrder"}) =>
                  \A i \in 1..Len(proc[p].writes) : proc[p].writes[i].tbl # "event")
    /\ [][events' # events =>
            \E p \in Procs :
                /\ Len(proc[p].writes) > 0
                /\ proc'[p].writes = Append(proc[p].writes,
                       Write("event", events'[Len(events')].orderId,
                             events'[Len(events')].type))
                /\ proc[p].writes[Len(proc[p].writes)] =
                       Write("order", events'[Len(events')].orderId,
                             Reported(events'[Len(events')].type))]_vars

\* An AcceptAssignment whose order update failed has written the assignment
\* and no event.
C29_Witness ==
    \E p \in Procs :
        /\ proc[p].kind = "AcceptAssignment"
        /\ proc[p].pc = "failed" /\ proc[p].at = "accept_updateOrder"
        /\ proc[p].err = "storage_error"
        /\ Len(proc[p].writes) = 1
        /\ EventsOf(proc[p].orderId, "ASSIGNED") = {}
        /\ EventsOf(proc[p].orderId, "READY_TO_SHIP") # {}

\* C30: when executions run one at a time and no repository call fails, in
\* every state in which no execution is in flight every persisted ACCEPTED
\* assignment belongs to an order persisted ASSIGNED and every persisted
\* PENDING assignment to an order persisted READY_TO_SHIP.
C30_SequentialConsistency ==
    (\A p \in Procs : Finished(p)) =>
        \A a \in AsgIds :
            /\ assignments[a].status = "ACCEPTED" =>
                  orders[assignments[a].orderId] = "ASSIGNED"
            /\ assignments[a].status = "PENDING" =>
                  orders[assignments[a].orderId] = "READY_TO_SHIP"

C30_Witness ==
    /\ \A p \in Procs : Finished(p)
    /\ \E p \in Procs : proc[p].kind = "AcceptAssignment" /\ proc[p].pc = "done"
    /\ \E a \in AsgIds :
          /\ assignments[a].status = "ACCEPTED"
          /\ orders[assignments[a].orderId] = "ASSIGNED"

----------------------------------------------------------------------------
(* Input claims, checked under PlaceSpec *)

\* s is empty or has whitespace only.
Blank(s) == \A k \in 1..Len(s) : s[k] = " "

\* v is s without its leading and trailing whitespace.
IsTrimOf(v, s) ==
    /\ v = <<>> \/ (v[1] # " " /\ v[Len(v)] # " ")
    /\ \E i \in 0..Len(s) :
          /\ i + Len(v) <= Len(s)
          /\ SubSeq(s, i + 1, i + Len(v)) = v
          /\ \A k \in 1..Len(s) : (k <= i \/ k > i + Len(v)) => s[k] = " "

AddressContract(s) ==
    LET a == Address(s)
    IN /\ a.threw <=> Blank(s)
       /\ ~a.threw => /\ IsTrimOf(a.value, s)
                      /\ Address(a.value) = a

\* C22: constructing an Address fails for an empty or whitespace-only
\* string; otherwise the stored value is the input without its leading and
\* trailing whitespace, wrapping the stored value again gives the same
\* Address, and two Addresses are equal iff their inputs have the same
\* trimmed value.
C22_Address ==
    LET a == Address(params.pickupAddress)
        b == Address(params.dropoffAddress)
    IN /\ AddressContract(params.pickupAddress)
       /\ AddressContract(params.dropoffAddress)
       /\ (~a.threw /\ ~b.threw) =>
             (Address_equals(a, b) <=>
                 \E v \in Strings : /\ IsTrimOf(v, params.pickupAddress)
                                    /\ IsTrimOf(v, params.dropoffAddress))

\* An order was placed with two addresses that differ only in whitespace.
C22_Witness ==
    /\ params.pickupAddress = <<" ", "a">>
    /\ params.dropoffAddress = <<"a", " ">>
    /\ Address_equals(Address(params.pickupAddress), Address(params.dropoffAddress))
    /\ Address(params.pickupAddress).value = <<"a">>
    /\ \E p \in Procs : proc[p].kind = "PlaceOrder" /\ proc[p].pc = "done"

\* start is after end.
StartAfterEnd(startAt, endAt) == startAt # NULL /\ endAt # NULL /\ startAt > endAt

InvalidInput(in) ==
    \/ in.shipperId = <<>>
    \/ Blank(in.pickupAddress)
    \/ Blank(in.dropoffAddress)
    \/ StartAfterEnd(in.pickupStartAt, in.pickupEndAt)
    \/ StartAfterEnd(in.dropStartAt, in.dropEndAt)
    \/ in.totalWeightKg.given /\ in.totalWeightKg.kg < 0

\* C25: PlaceOrder with an empty shipperId, an empty or whitespace-only
\* pickup or dropoff address, a time window whose start is after its end, or
\* a negative weight fails with a validation error before any repository
\* call: it writes nothing, and no order and no event is persisted.
C25_InvalidInput ==
    InvalidInput(params) =>
        /\ \A o \in OrderIds : orders[o] = "NONE"
        /\ events = <<>>
        /\ \A p \in Procs : proc[p].kind = "PlaceOrder" =>
              /\ proc[p].pc = "failed"
              /\ proc[p].err = "validation_error"
              /\ proc[p].at = "place_new"
              /\ proc[p].writes = <<>>

C25_Witness ==
    /\ params.shipperId # <<>>
    /\ ~Blank(params.pickupAddress) /\ ~Blank(params.dropoffAddress)
    /\ ~params.totalWeightKg.given
    /\ params.pickupStartAt = NULL
    /\ params.dropStartAt = 2 /\ params.dropEndAt = 1
    /\ execs >= 2
    /\ \E p \in Procs : proc[p].pc = "failed" /\ proc[p].err = "validation_error"

----------------------------------------------------------------------------
(* Claims about stored assignments of any status, checked under OfferSpec *)

\* The persisted assignments of order o when execution p was called.
AssignmentsBefore(p, o) ==
    {a \in AsgIds : /\ proc[p].pre.assignments[a].status # "NONE"
                    /\ proc[p].pre.assignments[a].orderId = o}

AssignmentsOf(o) ==
    {a \in AsgIds : assignments[a].status # "NONE" /\ assignments[a].orderId = o}

\* C24 as stated: the query returns an assignment of the order whatever the
\* status of the order's assignments is.
C24_Original ==
    \A o \in OrderIds :
        AssignmentsOf(o) # {} =>
            AssignmentRepository_findActiveByOrderId(assignments, o) # {}

\* C24 (amended): the status condition of the query is equality with
\* PENDING: the query returns an assignment iff the order has a persisted
\* PENDING assignment, so it returns null when the order's only assignment
\* is ACCEPTED, REJECTED, COMPLETED or CANCELLED; and OfferAssignment raises
\* its conflict error at the query exactly when the order has a persisted
\* PENDING assignment.
C24_FindPending ==
    /\ [](\A o \in OrderIds :
            AssignmentRepository_findActiveByOrderId(assignments, o) # {} <=>
                \E a \in AssignmentsOf(o) : assignments[a].status = "PENDING")
    /\ [][\A p \in Procs :
            (proc[p].pc = "offer_findActive" /\ proc'[p].pc # "offer_findActive") =>
                ((proc'[p].pc = "failed" /\ proc'[p].err = "conflict") <=>
                    \E a \in AssignmentsOf(proc[p].orderId) :
                        assignments[a].status = "PENDING")]_vars

\* An offer passed the query although the order's only assignment is
\* COMPLETED.
C24_Witness ==
    \E p \in Procs :
        /\ proc[p].kind = "OfferAssignment"
        /\ proc[p].pc = "offer_save"
        /\ AssignmentsOf(proc[p].orderId) = {1}
        /\ assignments[1].status = "COMPLETED"

----------------------------------------------------------------------------
(* Entity claims, checked under EntitySpec *)

OrderAllowed ==
    {<<"PLACED", "READY_TO_SHIP">>, <<"READY_TO_SHIP", "ASSIGNED">>,
     <<"ASSIGNED", "DELIVERED">>}
    \cup {<<s, "CANCELLED">> : s \in {"PLACED", "READY_TO_SHIP", "ASSIGNED", "CANCELLED"}}

\* C5: for an Order constructed as PLACED, every status change made by
\* markReadyToShip, assign, deliver or cancel is PLACED->READY_TO_SHIP,
\* READY_TO_SHIP->ASSIGNED, ASSIGNED->DELIVERED or a move to CANCELLED from
\* PLACED, READY_TO_SHIP, ASSIGNED or CANCELLED; no call moves the order out
\* of DELIVERED or out of CANCELLED.
C5_OrderTransitions ==
    [][order.ctor = "PLACED" =>
         /\ (order'.status # order.status =>
                <<order.status, order'.status>> \in OrderAllowed)
         /\ (order.status \in {"DELIVERED", "CANCELLED"} =>
                order'.status = order.status)]_vars

C5_Witness ==
    /\ order.ctor = "PLACED"
    /\ order.status = "DELIVERED"
    /\ lastCall.entity = "order" /\ lastCall.op = "cancel" /\ lastCall.threw

\* C6: markReadyToShip succeeds iff the status is PLACED and then the status
\* is READY_TO_SHIP; assign succeeds iff READY_TO_SHIP and then ASSIGNED;
\* deliver succeeds iff ASSIGNED and then DELIVERED; otherwise the call throws.
C6_OrderGuards ==
    lastCall.entity = "order" =>
        /\ (lastCall.op = "markReadyToShip" =>
               /\ (~lastCall.threw <=> lastCall.pre = "PLACED")
               /\ (~lastCall.threw => order.status = "READY_TO_SHIP"))
        /\ (lastCall.op = "assign" =>
               /\ (~lastCall.threw <=> lastCall.pre = "READY_TO_SHIP")
               /\ (~lastCall.threw => order.status = "ASSIGNED"))
        /\ (lastCall.op = "deliver" =>
               /\ (~lastCall.threw <=> lastCall.pre = "ASSIGNED")
               /\ (~lastCall.threw => order.status = "DELIVERED"))

C6_Witness ==
    /\ lastCall.entity = "order" /\ lastCall.op = "deliver"
    /\ lastCall.pre = "ASSIGNED" /\ ~lastCall.threw
    /\ order.status = "DELIVERED"

\* C7: Order.cancel throws iff the status is DELIVERED; from PLACED,
\* READY_TO_SHIP, ASSIGNED and CANCELLED it succeeds and leaves CANCELLED; a
\* cancel that directly follows a successful cancel succeeds and leaves the
\* status as the first one left it.
C7_OrderCancel ==
    [][(calls' # calls /\ lastCall'.entity = "order" /\ lastCall'.op = "cancel") =>
         /\ (lastCall'.threw <=> order.status = "DELIVERED")
         /\ (~lastCall'.threw => order'.status = "CANCELLED")
         /\ ((lastCall.entity = "order" /\ lastCall.op = "cancel" /\ ~lastCall.threw) =>
                ~lastCall'.threw /\ order'.status = order.status)]_vars

C7_Witness ==
    /\ lastCall.entity = "order" /\ lastCall.op = "cancel"
    /\ lastCall.pre = "CANCELLED" /\ ~lastCall.threw
    /\ order.status = "CANCELLED"
    /\ order.ctor # "CANCELLED"

\* C8: accept succeeds iff the status is PENDING and then the status is
\* ACCEPTED; reject succeeds iff PENDING and then REJECTED; complete succeeds
\* iff ACCEPTED and then COMPLETED; otherwise the call throws.
C8_AssignmentGuards ==
    lastCall.entity = "assignment" =>
        /\ (lastCall.op = "accept" =>
               /\ (~lastCall.threw <=> lastCall.pre = "PENDING")
               /\ (~lastCall.threw => assignment.status = "ACCEPTED"))
        /\ (lastCall.op = "reject" =>
               /\ (~lastCall.threw <=> lastCall.pre = "PENDING")
               /\ (~lastCall.threw => assignment.status = "REJECTED"))
        /\ (lastCall.op = "complete" =>
               /\ (~lastCall.threw <=> lastCall.pre = "ACCEPTED")
               /\ (~lastCall.threw => assignment.status = "COMPLETED"))

C8_Witness ==
    /\ lastCall.entity = "assignment" /\ lastCall.op = "complete"
    /\ lastCall.pre = "ACCEPTED" /\ ~lastCall.threw
    /\ assignment.status = "COMPLETED"

\* C9: Assignment.cancel throws iff the status is COMPLETED; from PENDING,
\* ACCEPTED, REJECTED and CANCELLED it succeeds and sets CANCELLED.
C9_AssignmentCancel ==
    (lastCall.entity = "assignment" /\ lastCall.op = "cancel") =>
        /\ (lastCall.threw <=> lastCall.pre = "COMPLETED")
        /\ (~lastCall.threw => assignment.status = "CANCELLED")
        /\ (lastCall.threw => assignment.status = "COMPLETED")

C9_Witness ==
    /\ lastCall.entity = "assignment" /\ lastCall.op = "cancel"
    /\ lastCall.pre = "REJECTED" /\ ~lastCall.threw
    /\ assignment.status = "CANCELLED"

\* C10 as stated: REJECTED, COMPLETED and CANCELLED are terminal, and
\* CANCELLED is entered only from PENDING or ACCEPTED.
C10_Original ==
    [][/\ (assignment.status \in {"REJECTED", "COMPLETED", "CANCELLED"} =>
              assignment'.status = assignment.status)
       /\ ((assignment'.status = "CANCELLED" /\ assignment.status # "CANCELLED") =>
              assignment.status \in {"PENDING", "ACCEPTED"})]_vars

\* C10 amended: COMPLETED and CANCELLED are terminal; a REJECTED assignment
\* changes status only to CANCELLED (by cancel); CANCELLED is entered only
\* from PENDING, ACCEPTED or REJECTED, never from COMPLETED.
C10_AssignmentTerminal ==
    [][/\ (assignment.status \in {"COMPLETED", "CANCELLED"} =>
              assignment'.status = assignment.status)
       /\ (assignment.status = "REJECTED" =>
              assignment'.status \in {"REJECTED", "CANCELLED"})
       /\ ((assignment'.status = "CANCELLED" /\ assignment.status # "CANCELLED") =>
              assignment.status \in {"PENDING", "ACCEPTED", "REJECTED"})]_vars

C10_Witness ==
    /\ assignment.ctor = "PENDING"
    /\ lastCall.entity = "assignment" /\ lastCall.op = "cancel"
    /\ lastCall.pre = "REJECTED" /\ ~lastCall.threw
    /\ assignment.status = "CANCELLED"

\* C11: for an Assignment constructed without respondedAt, respondedAt is
\* non-null iff some accept or reject call has succeeded on it; a successful
\* accept or reject sets it, and complete, cancel and every failing call
\* leave it unchanged.
C11_RespondedAt ==
    /\ [](assignment.ctorResp = NULL =>
             (assignment.respondedAt # NULL <=> lastCall.responded))
    /\ [][(calls' # calls /\ lastCall'.entity = "assignment"
                          /\ assignment.ctorResp = NULL) =>
             IF lastCall'.op \in {"accept", "reject"} /\ ~lastCall'.threw
             THEN assignment'.respondedAt # NULL
             ELSE assignment'.respondedAt = assignment.respondedAt]_vars

C11_Witness ==
    /\ assignment.ctorResp = NULL
    /\ assignment.ctor = "PENDING"
    /\ lastCall.entity = "assignment" /\ lastCall.op = "cancel" /\ ~lastCall.threw
    /\ lastCall.pre = "REJECTED"
    /\ assignment.respondedAt # NULL
    /\ lastCall.responded

\* C26: a transition call that throws leaves the entity as it was: the
\* Order's status, and the Assignment's status and respondedAt, are the same
\* after the call as before it.
C26_FailedCallFrame ==
    [][(calls' # calls /\ lastCall'.threw) =>
          /\ order'.status = order.status
          /\ assignment'.status = assignment.status
          /\ assignment'.respondedAt = assignment.respondedAt]_vars

C26_Witness ==
    /\ calls >= 2
    /\ lastCall.entity = "order" /\ lastCall.op = "deliver" /\ lastCall.threw
    /\ lastCall.pre = "READY_TO_SHIP"
    /\ order.status = "READY_TO_SHIP"
    /\ order.ctor = "PLACED"

====
